---- MODULE Spec2Model ----
(***************************************************************************)
(* A model of package seq (TuftsBCB/seq): the Needleman-Wunsch global      *)
(* alignment (alphabets.go), the Plan7 Viterbi score over a reusable       *)
(* dynamic table and HMM slicing (hmm.go).                                 *)
(***************************************************************************)
EXTENDS Integers, Sequences, FiniteSets, TLC

VARIABLES
    nwA, nwB,       \* NeedlemanWunsch: the arguments A and B
    nwSubst,        \* NeedlemanWunsch: the argument subst, a function of a residue pair
    matrix,         \* NeedlemanWunsch: the flat matrix, index i*c+j
    nwPc,           \* NeedlemanWunsch: position: "call", "trace", "done", "panic"
    ti, tj,         \* NeedlemanWunsch: the traceback's i and j
    alA, alB,       \* NeedlemanWunsch: aligned.A and aligned.B
    vtab,           \* the DynamicTables the callers hold: [scores, nodes] per table
    vqueue,         \* per goroutine, the ViterbiScoreMem calls it has yet to make
    vframe,         \* per goroutine, the running ViterbiScoreMem call: its arguments,
                    \* its position, its loop variables node and obs, its result,
                    \* and how many calls the goroutine has made
    vlog,           \* per goroutine, the accesses the running call has made to its
                    \* table since its reset, in order
    heap,           \* the arrays behind the HMMs' Nodes slices, by address
    hmms,           \* the HMM values that exist: [Nodes, Alphabet, Null]
    hlog,           \* the calls of HMM.Slice made so far: arguments and result
    hpanic,         \* whether a call of HMM.Slice panicked
    epAlphabet,     \* the alphabet an emission table was built from
    epTable,        \* the emission table: [Offset, Probs]
    epLast,         \* the last call on the table: its arguments, what it returned
                    \* and the table before it
    epPanic         \* whether a call on the table panicked

nwVars == <<nwA, nwB, nwSubst, matrix, nwPc, ti, tj, alA, alB>>

vitVars == <<vtab, vqueue, vframe, vlog>>

hmmVars == <<heap, hmms, hlog, hpanic>>

epVars == <<epAlphabet, epTable, epLast, epPanic>>

vars ==
    <<nwA, nwB, nwSubst, matrix, nwPc, ti, tj, alA, alB, vtab, vqueue, vframe, vlog,
      heap, hmms, hlog, hpanic, epAlphabet, epTable, epLast, epPanic>>

----------------------------------------------------------------------------
(* Bounds of the model. *)

\* Longest argument sequence of NeedlemanWunsch.
MaxLen == 3

\* The residues of the alphabet: 'A', 'B', 'C'.
Residues == {65, 66, 67}

\* The gap symbol '-'.
Gap == 45

\* Scores a substitution function gives two equal residues, two different
\* residues (one score per order of the pair) and the gap pair.
MatchScores == {1}
MismatchScores == {-2, -1, 0}
GapScores == {-1, 0, 1}

SeqsUpTo(S, n) == UNION {[1..k -> S] : k \in 0..n}

\* The greatest and the least of a non-empty finite set of integers.
MaxOf(S) == CHOOSE x \in S : \A y \in S : y <= x
MinOf(S) == CHOOSE x \in S : \A y \in S : x <= y

\* The argument sequences of NeedlemanWunsch: every sequence over 'A', 'B' up
\* to MaxLen, and the sequences "ABC" and "AC" of the documented scenarios.
InputSeqs == SeqsUpTo({65, 66}, MaxLen) \cup {<<65, 66, 67>>, <<65, 67>>}

\* The substitution functions: subst(x,y) for equal residues, for x < y, for
\* x > y, and subst('-','-').
SubstOf(m, lo, hi, g) ==
    [pr \in (Residues \cup {Gap}) \X (Residues \cup {Gap}) |->
        IF pr[1] = Gap /\ pr[2] = Gap THEN g
        ELSE IF pr[1] = pr[2] THEN m
        ELSE IF pr[1] < pr[2] THEN lo ELSE hi]

SubstSet ==
    {SubstOf(m, lo, hi, g) :
        m \in MatchScores, lo \in MismatchScores, hi \in MismatchScores, g \in GapScores}

----------------------------------------------------------------------------
(* alphabets.go: NeedlemanWunsch *)

max(a, b) == IF a > b THEN a ELSE b

\* Mutant of max3: the first case forgets to compare a with c.
max3_DropsThird(a, b, c) ==
    IF a > b THEN a
    ELSE IF b > c THEN b
    ELSE c

max3(a, b, c) ==
    IF a > b /\ a > c THEN a
    ELSE IF b > c THEN b
    ELSE c

\* gapPenalty := subst('-', '-')
GapPenalty(subst) == subst[<<Gap, Gap>>]

\* Mutant of InitMatrix: the loop over row 0 is missing.
InitMatrix_NoRow0(r, c, gp) ==
    [p \in 0..(r * c - 1) |-> IF p % c = 0 THEN gp * (p \div c) ELSE 0]

\* matrix := make([]int, r*c), then the two loops over column 0 and row 0.
InitMatrix(r, c, gp) ==
    LET zero == [p \in 0..(r * c - 1) |-> 0]
        col0 == [p \in 0..(r * c - 1) |-> IF p % c = 0 THEN gp * (p \div c) ELSE zero[p]]
    IN  [p \in 0..(r * c - 1) |-> IF p < c THEN gp * p ELSE col0[p]]

\* The nested loops over i in 1..r-1, j in 1..c-1, from (i, j) on, each cell
\* read from the array as it then is. A[i] here is the code's A[i-1].
RECURSIVE FillInterior(_, _, _, _, _, _)
FillInterior(m, A, B, subst, i, j) ==
    LET r == Len(A) + 1
        c == Len(B) + 1
        gp == GapPenalty(subst)
        p == i * c + j
    IN  IF i >= r THEN m
        ELSE IF j >= c THEN FillInterior(m, A, B, subst, i + 1, 1)
        ELSE FillInterior(
                [m EXCEPT ![p] = max3(m[p - c - 1] + subst[<<A[i], B[j]>>],
                                      m[p - c] + gp,
                                      m[p - 1] + gp)],
                A, B, subst, i, j + 1)

\* The matrix after "Compute the matrix".
FillMatrix(A, B, subst) ==
    FillInterior(InitMatrix(Len(A) + 1, Len(B) + 1, GapPenalty(subst)), A, B, subst, 1, 1)

\* Mutant of TraceMove: the vertical case is tried before the diagonal one.
TraceMove_UpFirst(m, A, B, subst, i, j) ==
    LET c == Len(B) + 1
        gp == subst[<<Gap, Gap>>]
        p == i * c + j
    IN  IF i > 0 /\ m[p] = m[p - c] + gp THEN "up"
        ELSE IF i > 0 /\ j > 0 /\ m[p] = m[p - c - 1] + subst[<<A[i], B[j]>>] THEN "diag"
        ELSE IF j > 0 /\ m[p] = m[p - 1] + gp THEN "left"
        ELSE "panic"

\* Mutant of TraceMove: the vertical case does not compare the scores.
TraceMove_NoUpCheck(m, A, B, subst, i, j) ==
    LET c == Len(B) + 1
        gp == subst[<<Gap, Gap>>]
        p == i * c + j
    IN  IF i > 0 /\ j > 0 /\ m[p] = m[p - c - 1] + subst[<<A[i], B[j]>>] THEN "diag"
        ELSE IF i > 0 THEN "up"
        ELSE IF j > 0 /\ m[p] = m[p - 1] + gp THEN "left"
        ELSE "panic"

\* The switch of the traceback loop at (i, j): the first case that holds.
TraceMove(m, A, B, subst, i, j) ==
    LET c == Len(B) + 1
        gp == GapPenalty(subst)
        p == i * c + j
    IN  IF i > 0 /\ j > 0 /\ m[p] = m[p - c - 1] + subst[<<A[i], B[j]>>] THEN "diag"
        ELSE IF i > 0 /\ m[p] = m[p - c] + gp THEN "up"
        ELSE IF j > 0 /\ m[p] = m[p - 1] + gp THEN "left"
        ELSE "panic"

\* Mutant of TraceEmit: the horizontal case appends a gap to both rows.
TraceEmit_LeftGapGap(move, A, B, i, j) ==
    IF move = "diag" THEN <<A[i], B[j]>>
    ELSE IF move = "up" THEN <<A[i], Gap>>
    ELSE <<Gap, Gap>>

\* Mutant of TraceEmit: the vertical case appends to the wrong rows.
TraceEmit_UpSwapped(move, A, B, i, j) ==
    IF move = "diag" THEN <<A[i], B[j]>>
    ELSE IF move = "up" THEN <<Gap, A[i]>>
    ELSE <<Gap, B[j]>>

\* What one case of the switch appends to aligned.A and aligned.B.
TraceEmit(move, A, B, i, j) ==
    IF move = "diag" THEN <<A[i], B[j]>>
    ELSE IF move = "up" THEN <<A[i], Gap>>
    ELSE <<Gap, B[j]>>

\* One iteration of the traceback loop on the loop's state st: the indices i
\* and j, the alignment so far, and whether the default case was reached.
TraceStep(m, A, B, subst, st) ==
    LET move == TraceMove(m, A, B, subst, st.i, st.j)
        col == TraceEmit(move, A, B, st.i, st.j)
    IN  IF move = "panic" THEN [st EXCEPT !.panic = TRUE]
        ELSE [i |-> IF move = "diag" \/ move = "up" THEN st.i - 1 ELSE st.i,
              j |-> IF move = "diag" \/ move = "left" THEN st.j - 1 ELSE st.j,
              A |-> Append(st.A, col[1]),
              B |-> Append(st.B, col[2]),
              panic |-> FALSE]

\* Mutant of ReverseLoop: the alignment is returned as accumulated.
ReverseLoop_None(s, i, j) == s

\* The loop that reverses aligned.A (and aligned.B) in place; s[i+1] is the
\* code's s[i].
RECURSIVE ReverseLoop(_, _, _)
ReverseLoop(s, i, j) ==
    IF i < j
    THEN ReverseLoop([s EXCEPT ![i + 1] = s[j + 1], ![j + 1] = s[i + 1]], i + 1, j - 1)
    ELSE s

\* The traceback loop run to its end.
RECURSIVE TraceLoop(_, _, _, _, _)
TraceLoop(m, A, B, subst, st) ==
    IF st.panic \/ ~(st.i > 0 \/ st.j > 0) THEN st
    ELSE TraceLoop(m, A, B, subst, TraceStep(m, A, B, subst, st))

\* The whole call: the Alignment returned, or panic.
NeedlemanWunsch(A, B, subst) ==
    LET m == FillMatrix(A, B, subst)
        st == TraceLoop(m, A, B, subst,
                        [i |-> Len(A), j |-> Len(B), A |-> <<>>, B |-> <<>>, panic |-> FALSE])
    IN  [A |-> ReverseLoop(st.A, 0, Len(st.A) - 1),
         B |-> ReverseLoop(st.B, 0, Len(st.A) - 1),
         panic |-> st.panic]

NWInit ==
    /\ nwA \in InputSeqs
    /\ nwB \in InputSeqs
    /\ nwSubst \in SubstSet
    /\ matrix = <<>>
    /\ nwPc = "call"
    /\ ti = 0
    /\ tj = 0
    /\ alA = <<>>
    /\ alB = <<>>

\* Initialization and "Compute the matrix", then aligned := newAlignment and
\* i, j := r-1, c-1.
NWFill ==
    /\ nwPc = "call"
    /\ matrix' = FillMatrix(nwA, nwB, nwSubst)
    /\ ti' = Len(nwA)
    /\ tj' = Len(nwB)
    /\ alA' = <<>>
    /\ alB' = <<>>
    /\ nwPc' = "trace"
    /\ UNCHANGED <<nwA, nwB, nwSubst>>
    /\ UNCHANGED <<vitVars, hmmVars, epVars>>

\* One iteration of "for i > 0 || j > 0".
NWTrace ==
    /\ nwPc = "trace"
    /\ ti > 0 \/ tj > 0
    /\ LET st == TraceStep(matrix, nwA, nwB, nwSubst,
                           [i |-> ti, j |-> tj, A |-> alA, B |-> alB, panic |-> FALSE])
       IN  /\ alA' = st.A
           /\ alB' = st.B
           /\ ti' = st.i
           /\ tj' = st.j
           /\ nwPc' = IF st.panic THEN "panic" ELSE "trace"
    /\ UNCHANGED <<nwA, nwB, nwSubst, matrix>>
    /\ UNCHANGED <<vitVars, hmmVars, epVars>>

\* The loop has ended: reverse the alignment and return it.
NWReturn ==
    /\ nwPc = "trace"
    /\ ~(ti > 0 \/ tj > 0)
    /\ alA' = ReverseLoop(alA, 0, Len(alA) - 1)
    /\ alB' = ReverseLoop(alB, 0, Len(alA) - 1)
    /\ nwPc' = "done"
    /\ UNCHANGED <<nwA, nwB, nwSubst, matrix, ti, tj>>
    /\ UNCHANGED <<vitVars, hmmVars, epVars>>

----------------------------------------------------------------------------
(* hmm.go: Prob, EProbs, TProbs, HMMNode *)

\* MinProb = Prob(math.MaxFloat64), the sentinel: a number above every finite
\* score of the model. PosInf stands for +Inf, which float64 addition gives
\* for MinProb + MinProb.
MinProb == 1000000
PosInf == 2 * MinProb

\* float64 addition on the values of the model: small scores, MinProb and
\* +Inf. A small score added to math.MaxFloat64 rounds back to
\* math.MaxFloat64; math.MaxFloat64 twice overflows to +Inf.
FAdd(a, b) ==
    IF a >= PosInf \/ b >= PosInf THEN PosInf
    ELSE IF a = MinProb /\ b = MinProb THEN PosInf
    ELSE IF a = MinProb \/ b = MinProb THEN MinProb
    ELSE a + b

\* p1.Less(p2): p1 is the smaller probability.
Less(p1, p2) == p1 > p2

\* Residue is a byte: arithmetic on it wraps at 256.
Byte(x) == x % 256

\* NewEProbs(alphabet): offset and max scanned from Residue(255) and
\* Residue(0), then 1+max-offset entries of MinProb. Probs[k+1] is the code's
\* Probs[k].
NewEProbs(alphabet) ==
    LET rs == {alphabet[k] : k \in 1..Len(alphabet)}
        offset == MinOf(rs \cup {255})
        mx == MaxOf(rs \cup {0})
    IN  [Offset |-> offset, Probs |-> [k \in 1..Byte(1 + mx - offset) |-> MinProb]]

\* ep.Lookup(r)
Lookup(ep, r) ==
    LET i == Byte(r - ep.Offset)
    IN  IF i < 0 \/ i >= Len(ep.Probs) THEN MinProb ELSE ep.Probs[Byte(r - ep.Offset) + 1]

\* ep.Set(r, p), for a residue inside the table.
EProbsSet(ep, r, p) == [ep EXCEPT !.Probs[Byte(r - ep.Offset) + 1] = p]

\* The alphabet of the HMMs: 'A', 'B'.
HMMAlphabet == <<65, 66>>

\* An emission table over HMMAlphabet, built as the parsers and the tests
\* build it: NewEProbs, then Set per residue.
Emit(pa, pb) == EProbsSet(EProbsSet(NewEProbs(HMMAlphabet), 65, pa), 66, pb)

TProbs(mm, mi, md, im, ii, dm, dd) ==
    [MM |-> mm, MI |-> mi, MD |-> md, IM |-> im, II |-> ii, DM |-> dm, DD |-> dd]

HMMNode(residue, ins, mat, trans) ==
    [Residue |-> residue, NodeNum |-> 0, InsEmit |-> ins, MatEmit |-> mat,
     Transitions |-> trans, NeffM |-> 0, NeffI |-> 0, NeffD |-> 0]

\* The nodes the HMMs of the model are made of: one whose match path is
\* cheapest, one whose insertions and deletions are free and whose match
\* step is dear, with a negative log-odds emission, and one that allows the
\* match exit only (every other transition is the sentinel).
NodeSet ==
    { HMMNode(65, Emit(0, 1), Emit(0, 2), TProbs(1, 2, 3, 1, 2, 2, 1)),
      HMMNode(66, Emit(1, MinProb), Emit(-1, 0), TProbs(3, 0, 0, 0, 0, 0, 0)),
      HMMNode(65, Emit(MinProb, MinProb), Emit(0, MinProb),
              TProbs(0, MinProb, MinProb, 0, MinProb, 0, MinProb)) }

\* Most nodes of an HMM and longest sequence scored against it.
MaxNodes == 3
MaxSeqLen == 3

\* hmm.Nodes of an HMM made of the given nodes, numbered from 1.
Numbered(ns) == [k \in 1..Len(ns) |-> [ns[k] EXCEPT !.NodeNum = k]]

\* The node lists of the HMMs, and of those whose nodes are all alike.
NodeLists == {Numbered(ns) : ns \in SeqsUpTo(NodeSet, MaxNodes)}

UniformNodeLists ==
    {Numbered([k \in 1..n |-> nd]) : n \in 0..MaxNodes, nd \in NodeSet}

\* The sequences scored: over 'A', 'B' and '-', which lies below the
\* emission tables' offset.
ScoredSeqs == SeqsUpTo({65, 66, 45}, MaxSeqLen)

----------------------------------------------------------------------------
(* hmm.go: DynamicTable, ViterbiScore, ViterbiScoreMem *)

Match == 0
Deletion == 1
Insertion == 2

\* t.reset()
Reset(t) == [t EXCEPT !.scores = [i \in DOMAIN t.scores |-> MinProb]]

\* AllocTable(numNodes, seqLen)
AllocTable(numNodes, seqLen) ==
    LET nodes == numNodes + 1
    IN  Reset([scores |-> [i \in 0..(3 * nodes * (seqLen + 1) - 1) |-> 0], nodes |-> nodes])

\* Mutant of Index: the row length is the number of nodes, not nodes + 1.
Index_RowOfNumNodes(t, state, node, obs) == state + 3 * (node + (t.nodes - 1) * obs)

\* t.index(state, node, obs)
Index(t, state, node, obs) == state + 3 * (node + t.nodes * obs)

\* A table in the hands of a call: the table, whether an index was out of
\* range (a run-time panic), and the accesses made to table.scores.
Held(t) == [t |-> t, panic |-> FALSE, log |-> <<>>]

\* One access to table.scores: the cell named, the slot it is stored in, and
\* the slot's value before and after.
Access(kind, state, node, obs, slot, old, new) ==
    [kind |-> kind, state |-> state, node |-> node, obs |-> obs, slot |-> slot,
     old |-> old, new |-> new]

\* Mutant of TableSet: the proposal is stored whatever the cell holds.
TableSet_Overwrite(r, state, node, obs, p) ==
    LET i == state + 3 * (node + r.t.nodes * obs)
    IN  IF r.panic THEN r
        ELSE IF i \notin DOMAIN r.t.scores
             THEN [r EXCEPT !.panic = TRUE,
                            !.log = Append(@, Access("set", state, node, obs, i, p, p))]
        ELSE [r EXCEPT !.t.scores[i] = p,
                       !.log = Append(@, Access("set", state, node, obs, i, r.t.scores[i], p))]

\* t.set(state, node, obs, p)
TableSet(r, state, node, obs, p) ==
    LET i == Index(r.t, state, node, obs)
    IN  IF r.panic THEN r
        ELSE IF i \notin DOMAIN r.t.scores
             THEN [r EXCEPT !.panic = TRUE,
                            !.log = Append(@, Access("set", state, node, obs, i, p, p))]
        ELSE IF Less(r.t.scores[i], p)
             THEN [r EXCEPT !.t.scores[i] = p,
                            !.log = Append(@, Access("set", state, node, obs, i, r.t.scores[i], p))]
        ELSE [r EXCEPT !.log = Append(@, Access("set", state, node, obs, i,
                                                r.t.scores[i], r.t.scores[i]))]

\* table.scores[table.index(state, node, obs)], read.
TableGet(r, state, node, obs) ==
    LET i == Index(r.t, state, node, obs)
    IN  IF i \in DOMAIN r.t.scores THEN r.t.scores[i] ELSE MinProb

InRange(r, state, node, obs) == Index(r.t, state, node, obs) \in DOMAIN r.t.scores

\* here = table.scores[table.index(state, node, obs)]: the read is logged, and
\* panics when the index is out of range.
TableRead(r, state, node, obs) ==
    [r EXCEPT !.panic = r.panic \/ ~InRange(r, state, node, obs),
              !.log = Append(@, Access("read", state, node, obs, Index(r.t, state, node, obs),
                                       TableGet(r, state, node, obs),
                                       TableGet(r, state, node, obs)))]

\* The locals of one iteration; hmm[node+1] and seq[obs+1] are the code's
\* hmm.Nodes[node] and seq.Residues[obs].
Trans(hmm, node) == hmm[node + 1].Transitions

IEmit(hmm, seq, node, obs) == Lookup(hmm[node + 1].InsEmit, seq[obs + 1])

MEmit(hmm, seq, node, obs) ==
    IF node + 1 < Len(hmm) THEN Lookup(hmm[node + 2].MatEmit, seq[obs + 1]) ELSE 0

\* Mutant of VStart: the table is not reset.
VStart_NoReset(r) == [r EXCEPT !.t.scores[0] = 0]

\* table.reset() and the begin node.
VStart(r) ==
    LET t == Reset(r.t)
    IN  [r EXCEPT !.t = [t EXCEPT !.scores[Index(t, Match, 0, 0)] = 0],
                  !.log = Append(@, Access("begin", Match, 0, 0, Index(t, Match, 0, 0),
                                           MinProb, 0))]

\* The three proposals made from cell (Match, node, obs).
FromMatch(r, hmm, seq, node, obs) ==
    LET trans == Trans(hmm, node)
        iemit == IEmit(hmm, seq, node, obs)
        memit == MEmit(hmm, seq, node, obs)
        here == TableGet(r, Match, node, obs)
        r0 == TableRead(r, Match, node, obs)
        r1 == TableSet(r0, Insertion, node, obs + 1, FAdd(FAdd(here, trans.MI), iemit))
        r2 == TableSet(r1, Match, node + 1, obs + 1, FAdd(FAdd(here, trans.MM), memit))
    IN  TableSet(r2, Deletion, node + 1, obs, FAdd(here, trans.MD))

\* Mutant of FromInsertion: the I->I proposal targets the cell it was read
\* from.
FromInsertion_SelfLoop(r, hmm, seq, node, obs) ==
    LET trans == Trans(hmm, node)
        iemit == IEmit(hmm, seq, node, obs)
        memit == MEmit(hmm, seq, node, obs)
        here == TableGet(r, Insertion, node, obs)
        r0 == TableRead(r, Insertion, node, obs)
        r1 == TableSet(r0, Insertion, node, obs, FAdd(FAdd(here, trans.II), iemit))
    IN  TableSet(r1, Match, node + 1, obs + 1, FAdd(FAdd(here, trans.IM), memit))

\* The two proposals made from cell (Insertion, node, obs).
FromInsertion(r, hmm, seq, node, obs) ==
    LET trans == Trans(hmm, node)
        iemit == IEmit(hmm, seq, node, obs)
        memit == MEmit(hmm, seq, node, obs)
        here == TableGet(r, Insertion, node, obs)
        r0 == TableRead(r, Insertion, node, obs)
        r1 == TableSet(r0, Insertion, node, obs + 1, FAdd(FAdd(here, trans.II), iemit))
    IN  TableSet(r1, Match, node + 1, obs + 1, FAdd(FAdd(here, trans.IM), memit))

\* The two proposals made from cell (Deletion, node, obs).
FromDeletion(r, hmm, seq, node, obs) ==
    LET trans == Trans(hmm, node)
        memit == MEmit(hmm, seq, node, obs)
        here == TableGet(r, Deletion, node, obs)
        r0 == TableRead(r, Deletion, node, obs)
        r1 == TableSet(r0, Match, node + 1, obs + 1, FAdd(FAdd(here, trans.DM), memit))
    IN  TableSet(r1, Deletion, node + 1, obs, FAdd(here, trans.DD))

\* The two loop headers, from (node, obs) on: the iteration to run next, or
\* the return.
RECURSIVE LoopHead(_, _, _, _)
LoopHead(n, l, node, obs) ==
    IF node >= n THEN [pc |-> "ret", node |-> node, obs |-> obs]
    ELSE IF obs >= l THEN LoopHead(n, l, node + 1, 0)
    ELSE [pc |-> "match", node |-> node, obs |-> obs]

\* The loops run to their end.
RECURSIVE ViterbiLoop(_, _, _, _, _)
ViterbiLoop(r, hmm, seq, node, obs) ==
    IF r.panic \/ node >= Len(hmm) THEN r
    ELSE IF obs >= Len(seq) THEN ViterbiLoop(r, hmm, seq, node + 1, 0)
    ELSE ViterbiLoop(
            FromDeletion(FromInsertion(FromMatch(r, hmm, seq, node, obs),
                                       hmm, seq, node, obs),
                         hmm, seq, node, obs),
            hmm, seq, node, obs + 1)

\* hmm.ViterbiScoreMem(seq, table): the score returned, and whether the call
\* panicked.
ViterbiScoreMem(hmm, seq, table) ==
    LET r == ViterbiLoop(VStart(Held(table)), hmm, seq, 0, 0)
    IN  [ret |-> TableGet(r, Match, Len(hmm), Len(seq)),
         panic |-> r.panic \/ ~InRange(r, Match, Len(hmm), Len(seq))]

\* hmm.ViterbiScore(seq)
ViterbiScore(hmm, seq) == ViterbiScoreMem(hmm, seq, AllocTable(Len(hmm), Len(seq)))

\* The goroutines that score, and the table each of them holds.
Goroutines == {"g1", "g2"}
OwnTable(g) == IF g = "g1" THEN "t1" ELSE "t2"
TableIds == {OwnTable(g) : g \in Goroutines}

IdleFrame ==
    [pc |-> "idle", hmm |-> <<>>, seq |-> <<>>, tab |-> "t1", node |-> 0, obs |-> 0, ret |-> 0,
     ncalls |-> 0]

\* Mutant of TableOf: every call works on one package-level table.
TableOf_Shared(f) == "t1"

\* The table a running call works on: its argument.
TableOf(f) == f.tab

\* A goroutine calls hmm.ViterbiScoreMem(seq, table) with the next arguments
\* it has.
VCall(g) ==
    /\ vframe[g].pc \in {"idle", "done"}
    /\ vqueue[g] # <<>>
    /\ vframe' = [vframe EXCEPT ![g] =
                    [pc |-> "reset", hmm |-> Head(vqueue[g]).hmm, seq |-> Head(vqueue[g]).seq,
                     tab |-> Head(vqueue[g]).tab, node |-> 0, obs |-> 0, ret |-> 0,
                     ncalls |-> vframe[g].ncalls + 1]]
    /\ vqueue' = [vqueue EXCEPT ![g] = Tail(vqueue[g])]
    /\ vlog' = [vlog EXCEPT ![g] = <<>>]
    /\ UNCHANGED vtab
    /\ UNCHANGED <<nwVars, hmmVars, epVars>>

\* table.reset(), the begin node, and the loop headers.
VReset(g) ==
    LET f == vframe[g]
        head == LoopHead(Len(f.hmm), Len(f.seq), 0, 0)
    IN  /\ f.pc = "reset"
        /\ vtab' = [vtab EXCEPT ![TableOf(f)] = VStart(Held(vtab[TableOf(f)])).t]
        /\ vlog' = [vlog EXCEPT ![g] = VStart(Held(vtab[TableOf(f)])).log]
        /\ vframe' = [vframe EXCEPT ![g].pc = head.pc, ![g].node = head.node,
                                    ![g].obs = head.obs]
        /\ UNCHANGED vqueue
        /\ UNCHANGED <<nwVars, hmmVars, epVars>>

\* One part of the loop body run on the call's table: the proposals from the
\* Match, the Insertion or the Deletion cell of (node, obs).
VBlock(g, pc, r, next) ==
    LET f == vframe[g]
    IN  /\ f.pc = pc
        /\ vtab' = [vtab EXCEPT ![TableOf(f)] = r.t]
        /\ vlog' = [vlog EXCEPT ![g] = @ \o r.log]
        /\ vframe' = [vframe EXCEPT ![g].pc = IF r.panic THEN "panic" ELSE next.pc,
                                    ![g].node = next.node, ![g].obs = next.obs]
        /\ UNCHANGED vqueue
        /\ UNCHANGED <<nwVars, hmmVars, epVars>>

VFromMatch(g) ==
    LET f == vframe[g]
    IN  /\ f.pc = "match"
        /\ VBlock(g, "match", FromMatch(Held(vtab[TableOf(f)]), f.hmm, f.seq, f.node, f.obs),
                  [pc |-> "ins", node |-> f.node, obs |-> f.obs])

VFromInsertion(g) ==
    LET f == vframe[g]
    IN  /\ f.pc = "ins"
        /\ VBlock(g, "ins", FromInsertion(Held(vtab[TableOf(f)]), f.hmm, f.seq, f.node, f.obs),
                  [pc |-> "del", node |-> f.node, obs |-> f.obs])

VFromDeletion(g) ==
    LET f == vframe[g]
    IN  /\ f.pc = "del"
        /\ VBlock(g, "del", FromDeletion(Held(vtab[TableOf(f)]), f.hmm, f.seq, f.node, f.obs),
                  LoopHead(Len(f.hmm), Len(f.seq), f.node, f.obs + 1))

\* return table.scores[table.index(Match, len(hmm.Nodes), seq.Len())]
VReturn(g) ==
    LET f == vframe[g]
        r == Held(vtab[TableOf(f)])
    IN  /\ f.pc = "ret"
        /\ vframe' = [vframe EXCEPT
                        ![g].pc = IF InRange(r, Match, Len(f.hmm), Len(f.seq))
                                  THEN "done" ELSE "panic",
                        ![g].ret = TableGet(r, Match, Len(f.hmm), Len(f.seq))]
        /\ vlog' = [vlog EXCEPT ![g] = @ \o TableRead(r, Match, Len(f.hmm), Len(f.seq)).log]
        /\ UNCHANGED <<vtab, vqueue>>
        /\ UNCHANGED <<nwVars, hmmVars, epVars>>

\* One call's arguments: an HMM, a sequence, and the caller's table.
CallOf(hmm, seq, tab) == [hmm |-> hmm, seq |-> seq, tab |-> tab]

\* No alignment is running.
NWIdle ==
    /\ nwA = <<>>
    /\ nwB = <<>>
    /\ nwSubst = <<>>
    /\ matrix = <<>>
    /\ nwPc = "idle"
    /\ ti = 0
    /\ tj = 0
    /\ alA = <<>>
    /\ alB = <<>>

\* No goroutine scores.
VitIdle ==
    /\ vtab = [t \in TableIds |-> AllocTable(0, 0)]
    /\ vqueue = [g \in Goroutines |-> <<>>]
    /\ vframe = [g \in Goroutines |-> IdleFrame]
    /\ vlog = [g \in Goroutines |-> <<>>]

\* One goroutine, one call on a table it has just allocated.
VitInit ==
    /\ \E hmm \in NodeLists, seq \in ScoredSeqs :
          /\ vtab = [t \in TableIds |->
                        IF t = "t1" THEN AllocTable(Len(hmm), Len(seq)) ELSE AllocTable(0, 0)]
          /\ vqueue = [g \in Goroutines |->
                        IF g = "g1" THEN <<CallOf(hmm, seq, "t1")>> ELSE <<>>]
    /\ vframe = [g \in Goroutines |-> IdleFrame]
    /\ vlog = [g \in Goroutines |-> <<>>]

\* Most calls one goroutine makes on the same table.
MaxCalls == 2

\* The sequences scored in calls that reuse a table: over 'A' and '-'.
ReuseSeqs == SeqsUpTo({65, 45}, MaxSeqLen)

\* One goroutine, up to MaxCalls calls in a row on the one table it
\* allocated, with HMMs and sequences of the table's dimensions.
ReuseInit ==
    /\ \E n \in 0..MaxNodes, l \in 0..MaxSeqLen :
          /\ vtab = [t \in TableIds |->
                        IF t = "t1" THEN AllocTable(n, l) ELSE AllocTable(0, 0)]
          /\ \E k \in 1..MaxCalls :
                \E calls \in [1..k -> {CallOf(hmm, seq, "t1") :
                                          hmm \in {h \in UniformNodeLists : Len(h) = n},
                                          seq \in {s \in ReuseSeqs : Len(s) = l}}] :
                    vqueue = [g \in Goroutines |-> IF g = "g1" THEN calls ELSE <<>>]
    /\ vframe = [g \in Goroutines |-> IdleFrame]
    /\ vlog = [g \in Goroutines |-> <<>>]

\* The sequences the concurrent goroutines score.
ConcSeqs == SeqsUpTo({65}, MaxSeqLen)

\* Every goroutine makes one call, each on its own table, all with the same
\* HMM.
ConcInit ==
    /\ \E hmm \in UniformNodeLists :
          \E seqs \in [Goroutines -> ConcSeqs] :
              /\ vtab = [t \in TableIds |->
                            LET g == CHOOSE x \in Goroutines : OwnTable(x) = t
                            IN  AllocTable(Len(hmm), Len(seqs[g]))]
              /\ vqueue = [g \in Goroutines |-> <<CallOf(hmm, seqs[g], OwnTable(g))>>]
    /\ vframe = [g \in Goroutines |-> IdleFrame]
    /\ vlog = [g \in Goroutines |-> <<>>]

----------------------------------------------------------------------------
(* hmm.go: HMM.Slice *)

\* Most calls of HMM.Slice in a row.
MaxOps == 2

\* The zero HMMNode that make([]HMMNode, n) fills an array with.
ZeroNode ==
    [Residue |-> 0, NodeNum |-> 0, InsEmit |-> [Offset |-> 0, Probs |-> <<>>],
     MatEmit |-> [Offset |-> 0, Probs |-> <<>>], Transitions |-> TProbs(0, 0, 0, 0, 0, 0, 0),
     NeffM |-> 0, NeffI |-> 0, NeffD |-> 0]

\* make([]HMMNode, n)
MakeNodes(n) == [k \in 1..n |-> ZeroNode]

\* arr[start:end]; element k+1 here is the code's element k.
SubSlice(arr, start, end) == [k \in 1..(end - start) |-> arr[start + k]]

\* copy(dst, src)
Copy(dst, src) == [k \in 1..Len(dst) |-> IF k <= Len(src) THEN src[k] ELSE dst[k]]

\* Mutant of ForceLast: the I->M transition of the last node is left as it
\* was.
ForceLast_KeepsIM(nodes) ==
    [nodes EXCEPT ![Len(nodes)].Transitions.MM = 0,
                  ![Len(nodes)].Transitions.MI = MinProb,
                  ![Len(nodes)].Transitions.MD = MinProb,
                  ![Len(nodes)].Transitions.II = MinProb,
                  ![Len(nodes)].Transitions.DM = 0,
                  ![Len(nodes)].Transitions.DD = MinProb]

\* The seven assignments to nodes[last].Transitions.
ForceLast(nodes) ==
    [nodes EXCEPT ![Len(nodes)].Transitions.MM = 0,
                  ![Len(nodes)].Transitions.MI = MinProb,
                  ![Len(nodes)].Transitions.MD = MinProb,
                  ![Len(nodes)].Transitions.IM = 0,
                  ![Len(nodes)].Transitions.II = MinProb,
                  ![Len(nodes)].Transitions.DM = 0,
                  ![Len(nodes)].Transitions.DD = MinProb]

\* Mutant of SliceHMM: the transitions are forced on the receiver's node
\* end-1 before the copy.
SliceHMM_ForcesReceiver(hp, hmm, start, end) ==
    IF ~(0 <= start /\ start < end /\ end <= Len(hp[hmm.Nodes]))
    THEN [panic |-> TRUE, heap |-> hp, hmm |-> hmm]
    ELSE LET forced == [hp EXCEPT ![hmm.Nodes] =
                           SubSlice(@, 0, end - 1) \o ForceLast(SubSlice(@, end - 1, end))
                                                   \o SubSlice(@, end, Len(@))]
             made == Append(forced, MakeNodes(end - start))
             addr == Len(made)
             copied == [made EXCEPT ![addr] = Copy(made[addr], SubSlice(made[hmm.Nodes], start, end))]
         IN  [panic |-> FALSE, heap |-> copied,
              hmm |-> [Nodes |-> addr, Alphabet |-> hmm.Alphabet, Null |-> hmm.Null]]

\* hmm.Slice(start, end) on the heap hp: a new array is made, filled by copy,
\* its last node's transitions are forced, and a new HMM value refers to it.
\* The call panics on a negative length, on bounds outside the node list and
\* on last = -1.
SliceHMM(hp, hmm, start, end) ==
    IF ~(0 <= start /\ start < end /\ end <= Len(hp[hmm.Nodes]))
    THEN [panic |-> TRUE, heap |-> hp, hmm |-> hmm]
    ELSE LET made == Append(hp, MakeNodes(end - start))
             addr == Len(made)
             copied == [made EXCEPT ![addr] = Copy(made[addr], SubSlice(made[hmm.Nodes], start, end))]
             forced == [copied EXCEPT ![addr] = ForceLast(copied[addr])]
         IN  [panic |-> FALSE, heap |-> forced,
              hmm |-> [Nodes |-> addr, Alphabet |-> hmm.Alphabet, Null |-> hmm.Null]]

\* The null models an HMM comes with.
NullSet == {Emit(0, 0), Emit(1, 2)}

\* NewHMM(nodes, alphabet, null): the one HMM there is at the start.
HMMInit ==
    /\ \E nodes \in NodeLists, null \in NullSet :
          /\ heap = <<nodes>>
          /\ hmms = <<[Nodes |-> 1, Alphabet |-> HMMAlphabet, Null |-> null]>>
    /\ hlog = <<>>
    /\ hpanic = FALSE

\* No HMM is being sliced.
HMMIdle ==
    /\ heap = <<>>
    /\ hmms = <<>>
    /\ hlog = <<>>
    /\ hpanic = FALSE

\* A caller slices one of the HMMs it holds.
HSlice ==
    /\ ~hpanic
    /\ Len(hlog) < MaxOps
    /\ \E src \in 1..Len(hmms) :
          \E start \in 0..Len(heap[hmms[src].Nodes]), end \in 0..Len(heap[hmms[src].Nodes]) :
              LET r == SliceHMM(heap, hmms[src], start, end)
              IN  /\ hpanic' = r.panic
                  /\ heap' = r.heap
                  /\ hmms' = IF r.panic THEN hmms ELSE Append(hmms, r.hmm)
                  /\ hlog' = Append(hlog, [op |-> "slice", src |-> src, other |-> 0,
                                           start |-> start, end |-> end,
                                           res |-> IF r.panic THEN 0 ELSE Len(hmms) + 1])
    /\ UNCHANGED <<nwVars, vitVars, epVars>>

\* Mutant of CopyFrom: the offset of the destination is ignored.
CopyFrom_NoOffset(dst, off, src) == Copy(dst, src)

\* copy(dst[off:], src)
CopyFrom(dst, off, src) ==
    [k \in 1..Len(dst) |-> IF k > off /\ k - off <= Len(src) THEN src[k - off] ELSE dst[k]]

\* HMMCat(h1, h2) on the heap hp: a new array of len(h1.Nodes)+len(h2.Nodes)
\* nodes is made, h1's nodes are copied to its start and h2's after them, and
\* a new HMM value with h1's alphabet and null model refers to it.
HMMCat(hp, h1, h2) ==
    LET made == Append(hp, MakeNodes(Len(hp[h1.Nodes]) + Len(hp[h2.Nodes])))
        addr == Len(made)
        first == [made EXCEPT ![addr] = Copy(made[addr], made[h1.Nodes])]
        second == [first EXCEPT ![addr] =
                      CopyFrom(first[addr], Len(first[h1.Nodes]), first[h2.Nodes])]
    IN  [panic |-> FALSE, heap |-> second,
         hmm |-> [Nodes |-> addr, Alphabet |-> h1.Alphabet, Null |-> h1.Null]]

\* An alphabet other than HMMAlphabet.
AltAlphabet == <<66, 67>>

\* NewHMM twice: the two HMMs there are at the start. The second has either
\* the alphabet and null model of the first or others.
CatInit ==
    /\ \E n1 \in UniformNodeLists, n2 \in UniformNodeLists, null \in NullSet, same \in BOOLEAN :
          /\ heap = <<n1, n2>>
          /\ hmms = <<[Nodes |-> 1, Alphabet |-> HMMAlphabet, Null |-> null],
                      [Nodes |-> 2,
                       Alphabet |-> IF same THEN HMMAlphabet ELSE AltAlphabet,
                       Null |-> IF same THEN null ELSE CHOOSE x \in NullSet : x # null]>>
    /\ hlog = <<>>
    /\ hpanic = FALSE

\* A caller joins two of the HMMs it holds.
HCat ==
    /\ ~hpanic
    /\ Len(hlog) < MaxOps
    /\ \E a \in 1..Len(hmms), b \in 1..Len(hmms) :
          LET r == HMMCat(heap, hmms[a], hmms[b])
          IN  /\ hpanic' = r.panic
              /\ heap' = r.heap
              /\ hmms' = Append(hmms, r.hmm)
              /\ hlog' = Append(hlog, [op |-> "cat", src |-> a, other |-> b,
                                       start |-> 0, end |-> 0, res |-> Len(hmms) + 1])
    /\ UNCHANGED <<nwVars, vitVars, epVars>>

----------------------------------------------------------------------------
(* hmm.go: calls on an emission table *)

\* Longest alphabet an emission table is built from.
MaxAlpha == 2

\* The residue bytes of those alphabets: the ends of the byte range and two
\* neighbours inside it.
EPBytes == {0, 65, 66, 255}

\* The residue bytes looked up by a call: those bytes and their neighbours
\* below and above, so that the index r - Offset wraps around for some.
LookupBytes == {0, 1, 64, 65, 66, 67, 254, 255}

\* The probabilities set in a table.
EPProbs == {-3, 7}

\* Mutant of LookupCall: the index is computed in int, and only its upper
\* bound is checked.
LookupCall_Signed(table, r) ==
    LET i == r - table.Offset
    IN  IF i >= Len(table.Probs) THEN [ret |-> MinProb, panic |-> FALSE]
        ELSE IF i + 1 \in DOMAIN table.Probs THEN [ret |-> table.Probs[i + 1], panic |-> FALSE]
        ELSE [ret |-> MinProb, panic |-> TRUE]

\* table.Lookup(r), with the bounds check of ep.Probs[r-ep.Offset] made
\* explicit: a read outside the array panics.
LookupCall(table, r) ==
    LET i == Byte(r - table.Offset)
    IN  IF i < 0 \/ i >= Len(table.Probs) THEN [ret |-> MinProb, panic |-> FALSE]
        ELSE IF Byte(r - table.Offset) + 1 \in DOMAIN table.Probs
             THEN [ret |-> table.Probs[Byte(r - table.Offset) + 1], panic |-> FALSE]
        ELSE [ret |-> MinProb, panic |-> TRUE]

\* table.Set(r, p), with the bounds check of ep.Probs[r-ep.Offset] made
\* explicit: a write outside the array panics.
SetCall(table, r, p) ==
    IF Byte(r - table.Offset) + 1 \in DOMAIN table.Probs
    THEN [ep |-> EProbsSet(table, r, p), panic |-> FALSE]
    ELSE [ep |-> table, panic |-> TRUE]

\* No call has been made on the table.
NoCall == [op |-> "none", r |-> 0, p |-> 0, ret |-> 0, before |-> <<>>]

\* NewEProbs(alphabet), for an alphabet of at most MaxAlpha residues.
EPInit ==
    /\ epAlphabet \in SeqsUpTo(EPBytes, MaxAlpha)
    /\ epTable = NewEProbs(epAlphabet)
    /\ epLast = NoCall
    /\ epPanic = FALSE

\* No emission table is in use.
EPIdle ==
    /\ epAlphabet = <<>>
    /\ epTable = [Offset |-> 0, Probs |-> <<>>]
    /\ epLast = NoCall
    /\ epPanic = FALSE

\* ep.Set(r, p) for a residue of the alphabet, as newEProbs calls it.
ESet ==
    /\ ~epPanic
    /\ \E k \in 1..Len(epAlphabet), p \in EPProbs :
          LET r == epAlphabet[k]
              c == SetCall(epTable, r, p)
          IN  /\ epTable' = c.ep
              /\ epPanic' = c.panic
              /\ epLast' = [op |-> "set", r |-> r, p |-> p, ret |-> 0, before |-> epTable]
    /\ UNCHANGED <<epAlphabet, nwVars, vitVars, hmmVars>>

\* ep.Lookup(r) for a residue byte inside or outside the alphabet.
ELookup ==
    /\ ~epPanic
    /\ \E r \in LookupBytes :
          LET c == LookupCall(epTable, r)
          IN  /\ epPanic' = c.panic
              /\ epLast' = [op |-> "lookup", r |-> r, p |-> 0, ret |-> c.ret, before |-> epTable]
    /\ UNCHANGED <<epTable, epAlphabet, nwVars, vitVars, hmmVars>>

----------------------------------------------------------------------------
(* The specifications. *)

NWNext == NWFill \/ NWTrace \/ NWReturn

\* One call of NeedlemanWunsch.
InitNW == NWInit /\ VitIdle /\ HMMIdle /\ EPIdle
SpecNW == InitNW /\ [][NWNext]_vars

VitNext ==
    \E g \in Goroutines :
        \/ VCall(g)
        \/ VReset(g)
        \/ VFromMatch(g)
        \/ VFromInsertion(g)
        \/ VFromDeletion(g)
        \/ VReturn(g)

\* One call of ViterbiScoreMem on a fresh table.
InitViterbi == NWIdle /\ VitInit /\ HMMIdle /\ EPIdle
SpecViterbi == InitViterbi /\ [][VitNext]_vars

\* Calls of ViterbiScoreMem in a row on one table.
InitReuse == NWIdle /\ ReuseInit /\ HMMIdle /\ EPIdle
SpecReuse == InitReuse /\ [][VitNext]_vars

\* Concurrent calls of ViterbiScoreMem, one table each.
InitConc == NWIdle /\ ConcInit /\ HMMIdle /\ EPIdle
SpecConc == InitConc /\ [][VitNext]_vars

HMMNext == HSlice

\* Calls of HMM.Slice on an HMM and on the HMMs sliced from it.
InitHMM == NWIdle /\ VitIdle /\ HMMInit /\ EPIdle
SpecHMM == InitHMM /\ [][HMMNext]_vars

CatNext == HSlice \/ HCat

\* Calls of HMM.Slice and HMMCat on two HMMs and on the HMMs made from them.
InitCat == NWIdle /\ VitIdle /\ CatInit /\ EPIdle
SpecCat == InitCat /\ [][CatNext]_vars

EPNext == ESet \/ ELookup

\* Calls of Set and Lookup on a table made by NewEProbs.
InitEP == NWIdle /\ VitIdle /\ HMMIdle /\ EPInit
SpecEP == InitEP /\ [][EPNext]_vars

----------------------------------------------------------------------------
(* Properties of NeedlemanWunsch, checked under SpecNW. *)

\* The cell M[i,j] of the flat matrix.
Cell(i, j) == matrix[i * (Len(nwB) + 1) + j]

\* Every global alignment of A[1..i] with B[1..j], as a sequence of columns.
RECURSIVE Alignments(_, _, _, _)
Alignments(A, B, i, j) ==
    IF i = 0 /\ j = 0 THEN {<<>>}
    ELSE (IF i > 0 /\ j > 0
          THEN {Append(al, <<A[i], B[j]>>) : al \in Alignments(A, B, i - 1, j - 1)}
          ELSE {})
         \cup (IF i > 0
               THEN {Append(al, <<A[i], Gap>>) : al \in Alignments(A, B, i - 1, j)}
               ELSE {})
         \cup (IF j > 0
               THEN {Append(al, <<Gap, B[j]>>) : al \in Alignments(A, B, i, j - 1)}
               ELSE {})

\* The score of one column: subst(a,b) for two residues, the gap penalty when
\* one entry is a gap.
ColumnScore(subst, col) ==
    IF col[1] # Gap /\ col[2] # Gap THEN subst[col] ELSE subst[<<Gap, Gap>>]

RECURSIVE ColumnSum(_, _)
ColumnSum(subst, al) ==
    IF al = <<>> THEN 0
    ELSE ColumnScore(subst, Head(al)) + ColumnSum(subst, Tail(al))

\* The returned alignment as a sequence of columns.
Columns(a, b) == [k \in 1..Len(a) |-> <<a[k], b[k]>>]

\* C1: the alignment NeedlemanWunsch returns is a global alignment of A and B
\* whose column sum equals M[|A|,|B|], and no global alignment of A and B has
\* a greater column sum.
C1_Optimal ==
    nwPc = "done" =>
        LET all == Alignments(nwA, nwB, Len(nwA), Len(nwB))
            mine == ColumnSum(nwSubst, Columns(alA, alB))
        IN  /\ Len(alA) = Len(alB)
            /\ Columns(alA, alB) \in all
            /\ mine = Cell(Len(nwA), Len(nwB))
            /\ \A al \in all : ColumnSum(nwSubst, al) <= mine

\* C1 witness: a returned alignment with a gap in each row, beating some
\* other alignment of the same inputs.
C1_Witness ==
    /\ nwPc = "done"
    /\ \E k \in 1..Len(alA) : alA[k] = Gap
    /\ \E k \in 1..Len(alB) : alB[k] = Gap
    /\ \E al \in Alignments(nwA, nwB, Len(nwA), Len(nwB)) :
          ColumnSum(nwSubst, al) < ColumnSum(nwSubst, Columns(alA, alB))

\* C2: after the fill, column 0 and row 0 hold i*gapPenalty and j*gapPenalty
\* and every interior cell is the greatest of its three candidates.
C2_Recurrence ==
    nwPc \in {"trace", "done"} =>
        LET gp == nwSubst[<<Gap, Gap>>]
        IN  /\ DOMAIN matrix = 0..((Len(nwA) + 1) * (Len(nwB) + 1) - 1)
            /\ \A i \in 0..Len(nwA) : Cell(i, 0) = i * gp
            /\ \A j \in 0..Len(nwB) : Cell(0, j) = j * gp
            /\ \A i \in 1..Len(nwA) : \A j \in 1..Len(nwB) :
                  Cell(i, j) = MaxOf({Cell(i - 1, j - 1) + nwSubst[<<nwA[i], nwB[j]>>],
                                      Cell(i - 1, j) + gp,
                                      Cell(i, j - 1) + gp})

\* C2 witness: a filled matrix with an interior cell whose three candidates
\* are all equal and another cell where exactly the two gap candidates tie
\* above the diagonal one.
C2_Witness ==
    /\ nwPc = "trace"
    /\ LET gp == nwSubst[<<Gap, Gap>>]
       IN  /\ \E i \in 1..Len(nwA) : \E j \in 1..Len(nwB) :
                 /\ Cell(i - 1, j - 1) + nwSubst[<<nwA[i], nwB[j]>>] = Cell(i - 1, j) + gp
                 /\ Cell(i - 1, j) + gp = Cell(i, j - 1) + gp
           /\ \E i \in 1..Len(nwA) : \E j \in 1..Len(nwB) :
                 /\ Cell(i - 1, j - 1) + nwSubst[<<nwA[i], nwB[j]>>] < Cell(i - 1, j) + gp
                 /\ Cell(i - 1, j) + gp = Cell(i, j - 1) + gp

\* The three move conditions of the traceback at cell (i, j).
DiagCond(i, j) ==
    i > 0 /\ j > 0 /\ Cell(i, j) = Cell(i - 1, j - 1) + nwSubst[<<nwA[i], nwB[j]>>]

UpCond(i, j) == i > 0 /\ Cell(i, j) = Cell(i - 1, j) + nwSubst[<<Gap, Gap>>]

LeftCond(i, j) == j > 0 /\ Cell(i, j) = Cell(i, j - 1) + nwSubst[<<Gap, Gap>>]

\* C3: every traceback step takes the diagonal move when its condition
\* holds, otherwise the vertical move when its condition holds, otherwise the
\* horizontal move when its condition holds.
C3_Priority ==
    [][(nwPc = "trace" /\ nwPc' = "trace") =>
         /\ DiagCond(ti, tj) =>
               /\ ti' = ti - 1 /\ tj' = tj - 1
               /\ alA' = Append(alA, nwA[ti]) /\ alB' = Append(alB, nwB[tj])
         /\ (~DiagCond(ti, tj) /\ UpCond(ti, tj)) =>
               /\ ti' = ti - 1 /\ tj' = tj
               /\ alA' = Append(alA, nwA[ti]) /\ alB' = Append(alB, Gap)
         /\ (~DiagCond(ti, tj) /\ ~UpCond(ti, tj) /\ LeftCond(ti, tj)) =>
               /\ ti' = ti /\ tj' = tj - 1
               /\ alA' = Append(alA, Gap) /\ alB' = Append(alB, nwB[tj])]_vars

\* C3 witness: the traceback has just taken a diagonal move from a cell where
\* the vertical and the horizontal condition held as well.
C3_Witness ==
    /\ nwPc = "trace"
    /\ Len(alA) > 0
    /\ alA[Len(alA)] # Gap
    /\ alB[Len(alB)] # Gap
    /\ UpCond(ti + 1, tj + 1)
    /\ LeftCond(ti + 1, tj + 1)

\* C4: the default case of the traceback is never reached: at every cell
\* other than (0,0) that the traceback stands on a move condition holds, each
\* step consumes a residue, and the loop ends at (0,0) after at most |A|+|B|
\* steps.
C4_NoPanic ==
    /\ nwPc # "panic"
    /\ nwPc = "trace" =>
          /\ (ti > 0 \/ tj > 0) => (DiagCond(ti, tj) \/ UpCond(ti, tj) \/ LeftCond(ti, tj))
          /\ ti >= 0 /\ tj >= 0
          /\ Len(alA) + ti + tj <= Len(nwA) + Len(nwB)
    /\ nwPc = "done" => (ti = 0 /\ tj = 0 /\ Len(alA) <= Len(nwA) + Len(nwB))

\* C4 witness: a traceback that took the full |A|+|B| steps.
C4_Witness ==
    /\ nwPc = "done"
    /\ Len(nwA) > 0
    /\ Len(nwB) > 0
    /\ Len(alA) = Len(nwA) + Len(nwB)

Symmetric(subst) ==
    \A x \in Residues : \A y \in Residues : subst[<<x, y>>] = subst[<<y, x>>]

\* The call with the arguments swapped returns the transpose of this call's
\* alignment.
Transposed ==
    LET swapped == NeedlemanWunsch(nwB, nwA, nwSubst)
    IN  ~swapped.panic /\ swapped.A = alB /\ swapped.B = alA

\* The cell the traceback stood on before it emitted column k of the returned
\* alignment: the residues of each row up to and including column k.
VisitedI(k) == Cardinality({n \in 1..k : alA[n] # Gap})
VisitedJ(k) == Cardinality({n \in 1..k : alB[n] # Gap})

\* The traceback stood on a cell where the diagonal condition failed and both
\* gap conditions held.
GapTieVisited ==
    \E k \in 1..Len(alA) :
        /\ ~DiagCond(VisitedI(k), VisitedJ(k))
        /\ UpCond(VisitedI(k), VisitedJ(k))
        /\ LeftCond(VisitedI(k), VisitedJ(k))

\* C5 as stated: for a symmetric substitution function the alignments of
\* (A,B) and of (B,A) are transposes of one another.
C5_Symmetry ==
    (nwPc = "done" /\ Symmetric(nwSubst)) => Transposed

\* C5 as amended: for a symmetric substitution function the alignments of
\* (A,B) and of (B,A) are transposes of one another when the traceback of
\* (A,B) stands on no cell where the diagonal condition fails and both the
\* vertical and the horizontal condition hold.
C5_SymmetryNoGapTie ==
    (nwPc = "done" /\ Symmetric(nwSubst) /\ ~GapTieVisited) => Transposed

\* C5 witness: a symmetric scoring and a returned alignment with a gap in it,
\* no gap tie on its path, that the swapped call transposes.
C5_Witness ==
    /\ nwPc = "done"
    /\ Symmetric(nwSubst)
    /\ ~GapTieVisited
    /\ \E k \in 1..Len(alA) : alA[k] = Gap
    /\ \E k \in 1..Len(alB) : alB[k] = Gap
    /\ Transposed

\* Scenario scoring: match +1, mismatch -1, subst('-','-') = -1.
ScenarioSubst == SubstOf(1, -1, -1, -1)

\* C6: with match +1, mismatch -1 and gap -1, "ABC" against "ABC" returns
\* A,B,C over A,B,C with score 3, and "ABC" against "AC" returns A,B,C over
\* A,-,C with score 1.
C6_Scenarios ==
    (nwPc = "done" /\ nwSubst = ScenarioSubst /\ nwA = <<65, 66, 67>>) =>
        /\ nwB = <<65, 66, 67>> =>
              /\ alA = <<65, 66, 67>>
              /\ alB = <<65, 66, 67>>
              /\ ColumnSum(nwSubst, Columns(alA, alB)) = 3
              /\ Cell(3, 3) = 3
        /\ nwB = <<65, 67>> =>
              /\ alA = <<65, 66, 67>>
              /\ alB = <<65, Gap, 67>>
              /\ ColumnSum(nwSubst, Columns(alA, alB)) = 1
              /\ Cell(3, 2) = 1

\* C6 witness: the call on "ABC" and "AC" has returned its one-deletion
\* alignment.
C6_Witness ==
    /\ nwPc = "done"
    /\ nwSubst = ScenarioSubst
    /\ nwA = <<65, 66, 67>>
    /\ nwB = <<65, 67>>
    /\ alB = <<65, Gap, 67>>

----------------------------------------------------------------------------
(* Properties of ViterbiScore and ViterbiScoreMem. *)

\* Every Plan7 path from cell (state, n, o) to cell (Match, N, L), given the
\* total acc of the steps so far: the path's total, with whether none of its
\* steps has a sentinel transition or emission. A path leaves only cells
\* with n < N and o < L.
RECURSIVE PathResults(_, _, _, _, _, _, _)
PathResults(hmm, seq, state, n, o, acc, clean) ==
    IF state = Match /\ n = Len(hmm) /\ o = Len(seq) THEN {<<acc, clean>>}
    ELSE IF n >= Len(hmm) \/ o >= Len(seq) THEN {}
    ELSE
        LET tr == hmm[n + 1].Transitions
            iemit == Lookup(hmm[n + 1].InsEmit, seq[o + 1])
            memit == IF n + 1 < Len(hmm) THEN Lookup(hmm[n + 2].MatEmit, seq[o + 1]) ELSE 0
            ToIns(t) == PathResults(hmm, seq, Insertion, n, o + 1, FAdd(FAdd(acc, t), iemit),
                                    clean /\ t # MinProb /\ iemit # MinProb)
            ToMatch(t) == PathResults(hmm, seq, Match, n + 1, o + 1, FAdd(FAdd(acc, t), memit),
                                      clean /\ t # MinProb /\ memit # MinProb)
            ToDel(t) == PathResults(hmm, seq, Deletion, n + 1, o, FAdd(acc, t),
                                    clean /\ t # MinProb)
        IN  IF state = Match THEN ToIns(tr.MI) \cup ToMatch(tr.MM) \cup ToDel(tr.MD)
            ELSE IF state = Insertion THEN ToIns(tr.II) \cup ToMatch(tr.IM)
            ELSE ToMatch(tr.DM) \cup ToDel(tr.DD)

AllPaths(hmm, seq) == PathResults(hmm, seq, Match, 0, 0, 0, TRUE)

CleanTotals(hmm, seq) == {r[1] : r \in {x \in AllPaths(hmm, seq) : x[2]}}

\* C7: the score returned is the smallest total over all Plan7 paths from
\* (Match,0,0) to (Match,N,L), and MinProb when no path avoids a
\* sentinel-valued step.
C7_BestPath ==
    \A g \in Goroutines :
        /\ vframe[g].pc # "panic"
        /\ vframe[g].pc = "done" =>
              LET all == {r[1] : r \in AllPaths(vframe[g].hmm, vframe[g].seq)}
                  clean == CleanTotals(vframe[g].hmm, vframe[g].seq)
              IN  /\ vframe[g].ret = MinOf(all \cup {MinProb})
                  /\ vframe[g].ret = IF clean = {} THEN MinProb ELSE MinOf(clean)

\* C7 witness: a call has returned a finite score where two paths without a
\* sentinel step have different totals and another path has one.
C7_Witness ==
    \E g \in Goroutines :
        /\ vframe[g].pc = "done"
        /\ vframe[g].ret < MinProb
        /\ Cardinality(CleanTotals(vframe[g].hmm, vframe[g].seq)) >= 2
        /\ \E r \in AllPaths(vframe[g].hmm, vframe[g].seq) : ~r[2]

\* C8: a call of ViterbiScoreMem on the caller's table, whatever earlier
\* calls left in it, returns what ViterbiScore returns on a fresh table.
C8_SameAsFresh ==
    \A g \in Goroutines :
        /\ vframe[g].pc # "panic"
        /\ vframe[g].pc = "done" =>
              vframe[g].ret = ViterbiScore(vframe[g].hmm, vframe[g].seq).ret

\* C8 witness: the second call on a table has returned a finite score, and
\* no call is left to make.
C8_Witness ==
    \E g \in Goroutines :
        /\ vframe[g].pc = "done"
        /\ vframe[g].ncalls = 2
        /\ vframe[g].ret < MinProb
        /\ vframe[g].ret # 0

\* C9: while several calls run at once, each on its own table, a step
\* changes no table but the stepping call's own and changes no call's HMM or
\* sequence once it is bound, and every call returns the score it returns
\* when run alone.
C9_Interleaved ==
    [][/\ \A t \in TableIds :
             vtab'[t] # vtab[t] =>
                 \E g \in Goroutines : vframe'[g] # vframe[g] /\ vframe[g].tab = t
       /\ \A g \in Goroutines :
             /\ vframe[g].pc \notin {"idle", "done"} =>
                   (vframe'[g].hmm = vframe[g].hmm /\ vframe'[g].seq = vframe[g].seq)
             /\ vframe'[g].pc # "panic"
             /\ vframe'[g].pc = "done" =>
                   vframe'[g].ret = ViterbiScore(vframe'[g].hmm, vframe'[g].seq).ret]_vars

\* C9 witness: one call has returned a finite score while another call, on
\* a longer sequence, is inside its loop.
C9_Witness ==
    /\ vframe["g1"].pc = "done"
    /\ vframe["g1"].ret < MinProb
    /\ vframe["g2"].pc = "del"
    /\ vframe["g2"].node >= 1
    /\ Len(vframe["g2"].seq) > Len(vframe["g1"].seq)
    /\ vframe["g1"].tab # vframe["g2"].tab

----------------------------------------------------------------------------
(* Properties of HMM.Slice, checked under SpecHMM. *)

\* The transition row Slice forces on the last node.
ForcedRow == TProbs(0, MinProb, MinProb, 0, MinProb, 0, MinProb)

\* Node a equals node b in every field but the transition row.
SameButTransitions(a, b) == [a EXCEPT !.Transitions = b.Transitions] = b

\* C10: a call Slice(start,end) with 0 <= start < end <= n returns an HMM of
\* end-start nodes, node k equal to the receiver's node start+k in every
\* field, but for the last node's transition row, which is MM=IM=DM=0 and
\* MI=MD=II=DD=MinProb; alphabet and null model are the receiver's; and
\* Slice(0,n) of a result of Slice(0,n) returns its nodes unchanged.
C10_Slice ==
    [][(Len(hlog') = Len(hlog) + 1 /\ ~hpanic') =>
         LET c == hlog'[Len(hlog')]
             recv == hmms[c.src]
             src == heap[recv.Nodes]
             res == heap'[hmms'[c.res].Nodes]
             last == c.end - c.start
             again == \E e \in 1..Len(hlog) :
                         /\ hlog[e].res = c.src
                         /\ hlog[e].start = 0
                         /\ hlog[e].end = Len(src)
         IN  /\ Len(res) = c.end - c.start
             /\ \A k \in 1..(last - 1) : res[k] = src[c.start + k]
             /\ SameButTransitions(res[last], src[c.start + last])
             /\ res[last].Transitions = ForcedRow
             /\ hmms'[c.res].Alphabet = recv.Alphabet
             /\ hmms'[c.res].Null = recv.Null
             /\ (again /\ c.start = 0 /\ c.end = Len(src)) => res = src]_vars

\* C10 witness: an HMM of three nodes was sliced whole, which changed its
\* last node's transition row only, and the result was sliced whole again,
\* which changed nothing.
C10_Witness ==
    /\ Len(hlog) = 2
    /\ ~hpanic
    /\ Len(heap[1]) = 3
    /\ hlog[1].src = 1 /\ hlog[1].start = 0 /\ hlog[1].end = 3
    /\ hlog[2].src = 2 /\ hlog[2].start = 0 /\ hlog[2].end = 3
    /\ heap[2] # heap[1]
    /\ heap[3] = heap[2]

----------------------------------------------------------------------------
(* Properties of HMMCat and of the inputs of HMM.Slice and HMMCat, checked
   under SpecCat. *)

\* The call that the step made, if it was one that returned.
Returned(op) == Len(hlog') = Len(hlog) + 1 /\ hlog'[Len(hlog')].op = op /\ ~hpanic'

\* C11: HMMCat(h1,h2) returns an HMM of |h1.Nodes|+|h2.Nodes| nodes, h1's
\* nodes in order followed by h2's in order, each unchanged, with h1's
\* alphabet and h1's null model; it does so without a panic whatever h2's
\* alphabet is.
C11_Cat ==
    [][/\ (Len(hlog') = Len(hlog) + 1 /\ hlog'[Len(hlog')].op = "cat") => ~hpanic'
       /\ Returned("cat") =>
            LET c == hlog'[Len(hlog')]
                n1 == heap[hmms[c.src].Nodes]
                n2 == heap[hmms[c.other].Nodes]
                res == heap'[hmms'[c.res].Nodes]
            IN  /\ Len(res) = Len(n1) + Len(n2)
                /\ res = n1 \o n2
                /\ hmms'[c.res].Alphabet = hmms[c.src].Alphabet
                /\ hmms'[c.res].Null = hmms[c.src].Null]_vars

\* C11 witness: two HMMs that are not empty, with different nodes, alphabets
\* and null models, have been joined.
C11_Witness ==
    /\ Len(hlog) >= 1
    /\ hlog[1].op = "cat" /\ hlog[1].src = 1 /\ hlog[1].other = 2
    /\ Len(heap[1]) >= 2 /\ Len(heap[2]) >= 2
    /\ heap[1][1].Residue # heap[2][1].Residue
    /\ hmms[1].Alphabet # hmms[2].Alphabet
    /\ hmms[1].Null # hmms[2].Null
    /\ Len(heap[hmms[3].Nodes]) = Len(heap[1]) + Len(heap[2])

\* C12: a call of Slice or HMMCat that returns leaves every node array and
\* every HMM value that existed before it as it was: the node lists in every
\* field, the alphabets and the null models.
C12_InputsKept ==
    [][(Returned("slice") \/ Returned("cat")) =>
          /\ \A a \in 1..Len(heap) : heap'[a] = heap[a]
          /\ \A h \in 1..Len(hmms) : hmms'[h] = hmms[h]]_vars

\* C12 witness: an HMM whose node end-1 has another transition row than the
\* forced one was sliced up to end, then joined with the other HMM, and its
\* node end-1 still has that row.
C12_Witness ==
    /\ Len(hlog) = 2
    /\ ~hpanic
    /\ hlog[1].op = "slice" /\ hlog[1].src = 1 /\ hlog[1].end = 2 /\ Len(heap[1]) = 3
    /\ hlog[2].op = "cat" /\ hlog[2].src = 1 /\ hlog[2].other = 2
    /\ heap[1][2].Transitions # ForcedRow
    /\ heap[3][Len(heap[3])].Transitions = ForcedRow

----------------------------------------------------------------------------
(* Properties of the emission tables, checked under SpecEP. *)

\* The residues of the alphabet the table was built from.
AlphabetBytes == {epAlphabet[k] : k \in 1..Len(epAlphabet)}

\* r lies below the least or above the greatest byte of the alphabet.
OutsideSpan(r) == r < MinOf(AlphabetBytes) \/ r > MaxOf(AlphabetBytes)

\* C13: on a table built from an alphabet, with any entries set, Lookup(r)
\* of a byte r outside the alphabet's byte span returns MinProb, and no
\* Lookup of any byte panics: both for every byte on the table as it is and
\* for the Lookup that was called last.
C13_OutsideSpan ==
    /\ \A r \in 0..255 :
          /\ ~LookupCall(epTable, r).panic
          /\ (AlphabetBytes # {} /\ OutsideSpan(r)) => LookupCall(epTable, r).ret = MinProb
    /\ epLast.op = "lookup" =>
          /\ ~epPanic
          /\ (AlphabetBytes # {} /\ OutsideSpan(epLast.r)) => epLast.ret = MinProb

\* C13 witness: on a table whose first and last entries are set to other
\* values than MinProb, a byte below the span, whose index wraps around, was
\* looked up.
C13_Witness ==
    /\ epLast.op = "lookup"
    /\ epAlphabet = <<65, 66>>
    /\ epTable.Probs = <<7, 7>>
    /\ epLast.r = 64
    /\ Byte(epLast.r - epTable.Offset) = 255

\* What C14 says of the table, for the alphabets in the set given: a new
\* table has max-min+1 entries, all MinProb, and Lookup of every alphabet
\* residue is MinProb; after Set(r,p) of an alphabet residue, which does not
\* panic, Lookup(r) is p and Lookup of every other byte is what it was.
EProbsContract(alphabets) ==
    (epAlphabet # <<>> /\ epAlphabet \in alphabets) =>
        /\ LET new == NewEProbs(epAlphabet)
           IN  /\ Len(new.Probs) = MaxOf(AlphabetBytes) - MinOf(AlphabetBytes) + 1
               /\ \A k \in 1..Len(new.Probs) : new.Probs[k] = MinProb
               /\ \A r \in AlphabetBytes : LookupCall(new, r) = [ret |-> MinProb, panic |-> FALSE]
        /\ epLast.op = "set" =>
              /\ ~epPanic
              /\ LookupCall(epTable, epLast.r) = [ret |-> epLast.p, panic |-> FALSE]
              /\ \A r \in (0..255) \ {epLast.r} :
                    LookupCall(epTable, r) = LookupCall(epLast.before, r)

\* C14: for every alphabet that is not empty, NewEProbs returns max-min+1
\* entries of MinProb, Lookup of an alphabet residue is MinProb on it, and
\* Set(r,p) of an alphabet residue makes Lookup(r) return p and changes the
\* Lookup of no other byte.
C14_EProbs == EProbsContract(SeqsUpTo(EPBytes, MaxAlpha))

\* C14, for the alphabets that do not hold both byte 0 and byte 255, whose
\* length 1+max-min does not wrap around in a byte.
C14_EProbsBelow256 ==
    EProbsContract({a \in SeqsUpTo(EPBytes, MaxAlpha) :
                       ~({0, 255} \subseteq {a[k] : k \in 1..Len(a)})})

\* C14 witness: in a table of two alphabet residues, one was set and then
\* the other, which left the first as it was set.
C14_Witness ==
    /\ epLast.op = "set"
    /\ ~epPanic
    /\ Len(epTable.Probs) = 2
    /\ epLast.before.Probs[1] = -3
    /\ epTable.Probs = <<-3, 7>>

----------------------------------------------------------------------------
(* Properties of the table's addressing and of the fill order, checked under
   SpecViterbi. *)

\* The cells of a table for n nodes and a sequence of length l.
CellsOf(n, l) == {Match, Deletion, Insertion} \X (0..n) \X (0..l)

\* C15: on the table from AllocTable(nodeCount, seqLen) the addressing
\* function maps the cells (state, node, obs), node in 0..nodeCount and obs
\* in 0..seqLen, one-to-one onto 0..3*(nodeCount+1)*(seqLen+1)-1, and every
\* access of the call names such a cell and goes to its slot, so that none is
\* out of bounds.
C15_Addressing ==
    \A g \in Goroutines :
        LET f == vframe[g]
            t == vtab[f.tab]
            n == Len(f.hmm)
            l == Len(f.seq)
        IN  f.pc # "idle" =>
              /\ f.pc # "panic"
              /\ DOMAIN t.scores = 0..(3 * (n + 1) * (l + 1) - 1)
              /\ {Index(t, c[1], c[2], c[3]) : c \in CellsOf(n, l)} = DOMAIN t.scores
              /\ Cardinality({Index(t, c[1], c[2], c[3]) : c \in CellsOf(n, l)}) =
                    Cardinality(CellsOf(n, l))
              /\ \A k \in 1..Len(vlog[g]) :
                    /\ <<vlog[g][k].state, vlog[g][k].node, vlog[g][k].obs>> \in CellsOf(n, l)
                    /\ vlog[g][k].slot = Index(t, vlog[g][k].state, vlog[g][k].node, vlog[g][k].obs)
                    /\ vlog[g][k].slot \in DOMAIN t.scores

\* C15 witness: a call with three nodes and a sequence of length three has
\* returned, having written the first slot and read the last.
C15_Witness ==
    \E g \in Goroutines :
        /\ vframe[g].pc = "done"
        /\ Len(vframe[g].hmm) = 3 /\ Len(vframe[g].seq) = 3
        /\ vlog[g][1].slot = 0
        /\ vlog[g][Len(vlog[g])].slot = 45
        /\ \E k \in 1..Len(vlog[g]) : vlog[g][k].kind = "set" /\ vlog[g][k].node = 3
                                        /\ vlog[g][k].obs = 3

\* C16: no cell is the target of a proposal after it has been read, so the
\* value a read saw is the value the cell keeps, and a proposal never raises
\* a cell's value: it replaces it with a strictly smaller value or leaves it.
C16_FinalBeforeUse ==
    \A g \in Goroutines :
        LET log == vlog[g]
            t == vtab[vframe[g].tab]
        IN  /\ \A j \in 1..Len(log), k \in 1..Len(log) :
                  (j < k /\ log[j].kind = "read" /\ log[k].kind # "read") =>
                      /\ log[k].slot # log[j].slot
                      /\ <<log[k].state, log[k].node, log[k].obs>> #
                            <<log[j].state, log[j].node, log[j].obs>>
            /\ \A j \in 1..Len(log) :
                  (log[j].kind = "read" /\ vframe[g].pc # "idle") =>
                      t.scores[log[j].slot] = log[j].old
            /\ \A k \in 1..Len(log) :
                  log[k].kind = "set" => (log[k].new = log[k].old \/ log[k].new < log[k].old)

\* C16 witness: a call with three nodes and a sequence of length three has
\* returned; its last cell got a proposal, then a better one that replaced a
\* value other than the sentinel, and was read after them.
C16_Witness ==
    \E g \in Goroutines :
        LET log == vlog[g]
            last == Len(vframe[g].hmm) + (Len(vframe[g].hmm) + 1) * Len(vframe[g].seq)
            sets == {k \in 1..Len(log) : log[k].kind = "set" /\ log[k].slot = 3 * last}
        IN  /\ vframe[g].pc = "done"
            /\ Len(vframe[g].hmm) = 3 /\ Len(vframe[g].seq) = 3
            /\ \E h \in sets, i \in sets :
                  /\ h < i
                  /\ log[h].new < MinProb
                  /\ log[i].new < log[i].old
                  /\ log[Len(log)].kind = "read"
                  /\ log[Len(log)].old = log[i].new

----------------------------------------------------------------------------
(* The form of the Alignment NeedlemanWunsch returns, checked under SpecNW. *)

\* The row s with its gap symbols deleted.
Ungapped(s) == SelectSeq(s, LAMBDA x : x # Gap)

\* C17: for inputs A and B without a gap symbol the rows of the Alignment
\* returned have one length, between max(|A|,|B|) and |A|+|B|; no column has
\* a gap in both rows; and row A without its gaps is A, row B without its
\* gaps is B.
C17_WellFormed ==
    (nwPc = "done" /\ Ungapped(nwA) = nwA /\ Ungapped(nwB) = nwB) =>
        /\ Len(alA) = Len(alB)
        /\ Len(alA) >= Len(nwA) /\ Len(alA) >= Len(nwB)
        /\ Len(alA) <= Len(nwA) + Len(nwB)
        /\ \A k \in 1..Len(alA) : ~(alA[k] = Gap /\ alB[k] = Gap)
        /\ Ungapped(alA) = nwA
        /\ Ungapped(alB) = nwB

\* C17 witness: an alignment of two inputs of different lengths was returned
\* that has a gap in each row and is longer than both inputs.
C17_Witness ==
    /\ nwPc = "done"
    /\ Len(nwA) = 3 /\ Len(nwB) = 2
    /\ Len(alA) = 4
    /\ \E k \in 1..Len(alA) : alA[k] = Gap
    /\ \E k \in 1..Len(alB) : alB[k] = Gap
    /\ alA # Ungapped(alA)

====
